---- MODULE Spec2Model ----
(***************************************************************************)
(* Model of the Nimbus orchestration engine (src/nimbus.py), its action    *)
(* dispatcher (src/actions.py), the progress tracker (src/nimbus_guide.py) *)
(* and the file-system collaborator (src/environment_manager.py).          *)
(*                                                                         *)
(* Python values are modelled as follows.  None is the string "None".     *)
(* A handler result is a record; Python's None result is NoneResult, the   *)
(* dict {"error": str(e)} is ErrorResult, a missing key is "".             *)
(* An exception that leaves a method is recorded in last.raised.           *)
(***************************************************************************)
EXTENDS Integers, Sequences, FiniteSets, TLC

\* ------------------------------------------------------------------ bounds
MaxLog == 2
MaxTracked == 2
MaxNow == 300
MaxInFlight == 2

\* ------------------------------------------------------------- vocabulary
None == "None"
ProjectNames == {"p1", "p2"}
Unnamed == "Unnamed Project"

\* os.listdir order is fixed to this order
FileOrder == <<"README.md", "src/main.py", "requirements.txt", "main.py",
               "research_and_plan.md", "generated_code.py", "tests", "test_main.py">>
FileNames == {FileOrder[i] : i \in 1..Len(FileOrder)}

project_stages == <<"planning", "implementation", "testing", "review">>

\* Methods of class Actions that execute_action can resolve by getattr.
HandlerNames == {"start_new_project", "research_and_plan", "implement_initial_prototype",
                 "generate_code", "write_tests", "project_retrospective"}

\* Catalog names for which class Actions defines no method, and an
\* identifier that resolves to nothing at all.
UnknownNames == {"view_commit_history"}

\* An attribute of Actions that is not a coroutine method: getattr finds it,
\* so execute_action treats it as a handler and the call raises TypeError.
AttributeNames == {"context"}

Result(status, file, file_name, stage) ==
    [kind |-> "dict", status |-> status, file |-> file, file_name |-> file_name,
     stage |-> stage, error |-> FALSE]
NoneResult ==
    [kind |-> "None", status |-> "", file |-> "", file_name |-> "", stage |-> "", error |-> FALSE]
ErrorResult ==
    [kind |-> "dict", status |-> "", file |-> "", file_name |-> "", stage |-> "", error |-> TRUE]
Failed == Result("failed", "", "", "")

\* details maps handed to handlers: a missing key is ""
NoDetails == [file_name |-> "", project_name |-> ""]
DetailsSet == {NoDetails, [file_name |-> "main.py", project_name |-> "p1"]}

VARIABLES
    driver,                 \* "loop": Nimbus.start(); "api": methods called one at a time
    loop_alive,             \* the main loop has not been left by an exception
    current_project,        \* Nimbus.current_project (its name) or None
    current_project_files,  \* Nimbus.current_project_files
    current_stage,          \* Nimbus.current_stage
    project_state,          \* KnowledgeBase.project_state
    active_menu,            \* Nimbus.active_menu
    context,                \* Actions.context: project_state, current_project, recent_actions
    action_log,             \* action_log.txt / persistent_action_log.json
    fs,                     \* the project directory tree kept by EnvironmentManager
    progress_tracker,       \* NimbusGuide.progress_tracker
    last,                   \* what the last operation did and handed back to its caller
    in_flight,              \* the dispatches that were started and have not returned
    phase,                  \* position in __main__: constructed, running, closed
    now,                    \* the last reading of time.time(), in seconds
    last_save_time,         \* Nimbus.last_save_time
    longterm_memory,        \* KnowledgeBase.longterm_memory
    memory_file,            \* contents of nimbus_memory.pkl, or None when there is no file
    mem_last,               \* what the last persistence operation did
    disk,                   \* the files under an EnvironmentManager's base_path, with their bytes
    agent                   \* a ContactCallerAgent: its contacts, contacts.json, its run

project_vars == <<driver, loop_alive, current_project, current_project_files, current_stage,
                  project_state, active_menu, context, action_log, fs, progress_tracker, last>>
memory_vars == <<phase, now, last_save_time, longterm_memory, memory_file, mem_last>>
tool_vars == <<disk, agent>>
vars == <<project_vars, in_flight, memory_vars, tool_vars>>

\* ------------------------------------------------------ EnvironmentManager
project_exists(f, p) == p \in f.projects

\* os.path.join(base_path, None) raises TypeError
PathRaises(p) == p = None

\* create_file: False when the project directory is absent, else the file is written.
create_file_ok(f, p) == project_exists(f, p)
create_file_fs(f, p, name) ==
    IF project_exists(f, p) THEN [f EXCEPT !.files[p] = @ \cup {name}] ELSE f

file_exists(f, p, name) == project_exists(f, p) /\ name \in f.files[p]

\* list_files: the regular files directly in the project directory
IsTopLevel(name) == name \notin {"src/main.py"}
InList(n, p, f) == n \in f.files[p] /\ IsTopLevel(n)
list_files(f, p) == SelectSeq(FileOrder, LAMBDA n : InList(n, p, f))

\* ------------------------------------- EnvironmentManager, with file contents
\* A str is a sequence of characters; "CR" and "LF" stand for '\r' and '\n'.
EnvProjects == {"test_project"}
EnvFileNames == {"test_file.txt", "src/main.py"}
Texts == {<<>>, <<"a">>, <<"a", "b", "a">>, <<"a", "LF", "b">>, <<"a", "CR", "LF", "b">>}
\* os.linesep: '\n' or '\r\n'
Lineseps == {<<"LF">>, <<"CR", "LF">>}
\* modifications: a dict, as the sequence of its items in insertion order
Modifications == {<<>>,
                  <<[key |-> <<"a">>, value |-> <<"c">>]>>,
                  <<[key |-> <<"a">>, value |-> <<>>]>>,
                  <<[key |-> <<"a", "b">>, value |-> <<"c">>]>>,
                  <<[key |-> <<"b">>, value |-> <<"CR">>]>>,
                  <<[key |-> <<"a">>, value |-> <<"b">>], [key |-> <<"b">>, value |-> <<"c">>]>>}

NoFile == [exists |-> FALSE, bytes |-> <<>>]
File(bytes) == [exists |-> TRUE, bytes |-> bytes]
EmptyDisk(linesep) ==
    [linesep |-> linesep, projects |-> {},
     files |-> [path \in EnvProjects \X EnvFileNames |-> NoFile]]

\* file.write(content) on a file opened in text mode with newline=None:
\* every '\n' is written as os.linesep
RECURSIVE text_write(_, _)
text_write(content, linesep) ==
    IF content = <<>> THEN <<>>
    ELSE (IF Head(content) = "LF" THEN linesep ELSE <<Head(content)>>)
         \o text_write(Tail(content), linesep)

\* file.read() on a file opened in text mode with newline=None (universal
\* newlines): '\r\n' and '\r' come back as '\n'
RECURSIVE text_read(_)
text_read(bytes) ==
    IF bytes = <<>> THEN <<>>
    ELSE IF Head(bytes) = "CR"
    THEN <<"LF">> \o text_read(IF Len(bytes) > 1 /\ bytes[2] = "LF"
                                THEN Tail(Tail(bytes)) ELSE Tail(bytes))
    ELSE <<Head(bytes)>> \o text_read(Tail(bytes))

\* str.replace(key, value): the occurrences of key, found from the left and
\* not overlapping, are replaced; an empty key matches before every character
\* and at the end
RECURSIVE str_replace(_, _, _)
str_replace(content, key, value) ==
    IF key = <<>>
    THEN (IF content = <<>> THEN value
          ELSE value \o <<Head(content)>> \o str_replace(Tail(content), key, value))
    ELSE IF Len(content) < Len(key) THEN content
    ELSE IF SubSeq(content, 1, Len(key)) = key
    THEN value \o str_replace(SubSeq(content, Len(key) + 1, Len(content)), key, value)
    ELSE <<Head(content)>> \o str_replace(Tail(content), key, value)

\* for key, value in modifications.items(): content = content.replace(key, value)
RECURSIVE modified(_, _)
modified(content, modifications) ==
    IF modifications = <<>> THEN content
    ELSE modified(str_replace(content, Head(modifications).key, Head(modifications).value),
                  Tail(modifications))

\* what a method of EnvironmentManager leaves and returns
EnvStep(d, value) == [disk |-> d, value |-> value]

\* open(file_path, ...) raises when the directory of the path does not exist:
\* create_project makes the project directory and nothing makes one below it
CanOpen(d, project_name, file_name) ==
    project_exists(d, project_name) /\ IsTopLevel(file_name)

create_project(d, project_name) ==
    EnvStep([d EXCEPT !.projects = @ \cup {project_name}], project_name)

create_file(d, project_name, file_name, content) ==
    IF ~project_exists(d, project_name) THEN EnvStep(d, FALSE)
    ELSE IF ~CanOpen(d, project_name, file_name) THEN EnvStep(d, FALSE)
    ELSE EnvStep([d EXCEPT !.files[<<project_name, file_name>>] =
                               File(text_write(content, d.linesep))], TRUE)

read_file(d, project_name, file_name) ==
    IF d.files[<<project_name, file_name>>].exists
    THEN EnvStep(d, text_read(d.files[<<project_name, file_name>>].bytes))
    ELSE EnvStep(d, <<>>)

modify_file(d, project_name, file_name, modifications) ==
    IF read_file(d, project_name, file_name).value = <<>> THEN EnvStep(d, FALSE)
    ELSE EnvStep([d EXCEPT !.files[<<project_name, file_name>>] =
                     File(text_write(modified(read_file(d, project_name, file_name).value,
                                              modifications), d.linesep))], TRUE)

\* ----------------------------------------------------- ContactCallerAgent
MaxContacts == 2

ContactNames == {"John Doe", "Jane Doe"}
\* what the oracle may name: a contact, or a name that no contact has
SelectionNames == ContactNames \cup {"Nobody"}
stages == <<"introduction", "explanation", "closeout">>
\* response['message'] of the three stages, and what input() returns in them
AgentMessages == {<<"AI response", "AI response", "AI response">>}
UserResponses == {<<"Hello", "Goodbye", "Hello">>, <<"Goodbye", "Hello", "Hello">>,
                  <<"Hello", "Hello", "Hello">>}

\* a contact of contacts.json: 'called' may be missing (read as False), and
\* 'call_summary' is there only after a call (<<>> stands for no such key)
Contact(name, called) == [name |-> name, called |-> called, call_summary |-> <<>>]
RECURSIVE ContactLists(_)
ContactLists(n) ==
    IF n = 0 THEN {<<>>}
    ELSE ContactLists(n - 1)
         \cup {Append(l, Contact(name, called)) :
                  l \in {k \in ContactLists(n - 1) : Len(k) = n - 1},
                  name \in ContactNames, called \in BOOLEAN}

\* json.dump(self.contacts, f): the objects of the list, key after key
json_dump(contacts) ==
    [i \in 1..Len(contacts) |->
        <<"name", contacts[i].name, "called", IF contacts[i].called THEN "true" ELSE "false">>
        \o (IF contacts[i].call_summary = <<>> THEN <<>>
            ELSE <<"call_summary">> \o contacts[i].call_summary)]

\* what a method of the agent leaves: the agent, whether an exception left
\* the method, and the value returned (for a contact its index, 0 for None)
AgentStep(a, raised, value) == [agent |-> a, raised |-> raised, value |-> value]

save_contacts(a) == [a EXCEPT !.file = [exists |-> TRUE, data |-> json_dump(a.contacts)]]

\* [c for c in self.contacts if not c.get('called', False)], as indexes
uncalled_contacts(a) ==
    SelectSeq([i \in 1..Len(a.contacts) |-> i], LAMBDA i : ~a.contacts[i].called)

\* next((c for c in uncalled_contacts if c['name'] == selection), None)
first_named(a, uncalled, selection) ==
    IF \E j \in 1..Len(uncalled) : a.contacts[uncalled[j]].name = selection
    THEN uncalled[CHOOSE j \in 1..Len(uncalled) :
                    /\ a.contacts[uncalled[j]].name = selection
                    /\ \A k \in 1..(j - 1) : a.contacts[uncalled[k]].name # selection]
    ELSE 0

select_next_contact(a, selection) ==
    IF uncalled_contacts(a) = <<>> THEN AgentStep(a, FALSE, 0)
    ELSE AgentStep(a, FALSE, first_named(a, uncalled_contacts(a), selection))

\* conversation_history after the three stages
RECURSIVE conversation_history(_, _, _)
conversation_history(agent_messages, user_responses, stage) ==
    IF stage > Len(stages) THEN <<>>
    ELSE <<[role |-> "agent", content |-> agent_messages[stage]],
           [role |-> "user", content |-> user_responses[stage]]>>
         \o conversation_history(agent_messages, user_responses, stage + 1)

\* "\n".join([f"{msg['role']}: {msg['content']}" for msg in conversation_history])
RECURSIVE joined(_)
joined(history) ==
    IF history = <<>> THEN <<>>
    ELSE <<Head(history).role, ": ", Head(history).content>>
         \o (IF Len(history) > 1 THEN <<"\n">> ELSE <<>>) \o joined(Tail(history))

\* make_call on the contact at index i; outcome "oracle_failed": a response
\* of the oracle has no 'message' (or input() raises) in some stage;
\* "save_failed": open('contacts.json', 'w') raises
CallOutcomes == {"completed", "oracle_failed", "save_failed"}
called_with(a, i, history) ==
    [a EXCEPT !.contacts[i].called = TRUE, !.contacts[i].call_summary = joined(history)]
\* A faulty make_call: the contacts are saved before the contact is marked.
make_call_saved_first(a, i, agent_messages, user_responses, outcome) ==
    AgentStep(called_with(save_contacts(a), i,
                          conversation_history(agent_messages, user_responses, 1)),
              outcome # "completed", 0)
make_call(a, i, agent_messages, user_responses, outcome) ==
    CASE outcome = "oracle_failed" -> AgentStep(a, TRUE, 0)
      [] outcome = "save_failed" ->
           AgentStep(called_with(a, i, conversation_history(agent_messages, user_responses, 1)),
                     TRUE, 0)
      [] OTHER ->
           AgentStep(save_contacts(called_with(a, i, conversation_history(agent_messages,
                                                                          user_responses, 1))),
                     FALSE, 0)

\* one pass of the while loop of run: pc "done" after the break, "failed"
\* when an exception left run; calls counts the make_call of run per contact
ran(a, i, r) ==
    AgentStep([r.agent EXCEPT !.pc = IF r.raised THEN "failed" ELSE "running",
                               !.calls[i] = @ + 1],
              r.raised, i)
run(a, selection, agent_messages, user_responses, outcome) ==
    IF select_next_contact(a, selection).value = 0
    THEN AgentStep([a EXCEPT !.pc = "done"], FALSE, 0)
    ELSE ran(a, select_next_contact(a, selection).value,
             make_call(a, select_next_contact(a, selection).value,
                       agent_messages, user_responses, outcome))

\* ------------------------------------------------------- Actions handlers
\* What one handler call does: raised (an exception left the handler), the
\* result it returned, and the Actions.context / file system it leaves.
\* ok: the external service the handler calls (oracle, git) answered.
Outcome(raised, result, state, project, f) ==
    [raised |-> raised, result |-> result, state |-> state, project |-> project, fs |-> f]
Raise(c, f) == Outcome(TRUE, NoneResult, c.project_state, c.current_project, f)
Return(result, c, f) == Outcome(FALSE, result, c.project_state, c.current_project, f)

research_and_plan(c, f, ok) ==
    IF ~ok \/ PathRaises(c.current_project) THEN Raise(c, f)
    ELSE Return(Result("success", "research_and_plan.md", "", "planning"), c,
                create_file_fs(f, c.current_project, "research_and_plan.md"))

actions_start_new_project(c, f, d) ==
    IF c.project_state = "in_progress" THEN Return(Failed, c, f)
    ELSE LET name == IF d.project_name = "" THEN Unnamed ELSE d.project_name
             f1 == create_file_fs(f, name, "README.md")
             f2 == create_file_fs(f1, name, "main.py")
             f3 == create_file_fs(f2, name, "requirements.txt")
         IN  Outcome(FALSE, Result("success", "", "", ""), "in_progress", name, f3)

implement_initial_prototype(c, f, ok) ==
    IF PathRaises(c.current_project) \/ ~ok THEN Raise(c, f)
    ELSE LET f1 == IF file_exists(f, c.current_project, "research_and_plan.md") THEN f
                   ELSE research_and_plan(c, f, ok).fs
         IN  Return(Result("success", "main.py", "", "implementation"), c, f1)

generate_code(c, f, d, ok) ==
    IF ~ok THEN Raise(c, f)
    ELSE LET file_name == IF d.file_name = "" THEN "generated_code.py" ELSE d.file_name
         IN  IF c.current_project = None THEN Return(Failed, c, f)
             ELSE IF create_file_ok(f, c.current_project)
                  THEN Return(Result("success", "", file_name, ""), c,
                              create_file_fs(f, c.current_project, file_name))
                  ELSE Return(Failed, c, f)

\* write_tests: no project directory has a tests directory (nothing creates
\* one), so "tests" is first written as an empty regular file, and the write
\* of tests/test_<file_name> under it then fails: create_file returns False.
write_tests(c, f, d, ok) ==
    IF d.file_name = "" \/ c.current_project = None \/ ~ok THEN Return(Failed, c, f)
    ELSE Return(Failed, c, create_file_fs(f, c.current_project, "tests"))

project_retrospective(c, f) ==
    Outcome(FALSE, Result("success", "", "", ""), "idle", None, f)

\* getattr(self, action_name)(details)
Handler(name, c, f, d, ok) ==
    CASE name = "start_new_project" -> actions_start_new_project(c, f, d)
      [] name = "research_and_plan" -> research_and_plan(c, f, ok)
      [] name = "implement_initial_prototype" -> implement_initial_prototype(c, f, ok)
      [] name = "generate_code" -> generate_code(c, f, d, ok)
      [] name = "write_tests" -> write_tests(c, f, d, ok)
      [] name = "project_retrospective" -> project_retrospective(c, f)
      [] OTHER -> Raise(c, f)

\* ------------------------------------------------- the object state
\* The fields of one Nimbus object and its collaborators, as a record, so
\* that a method is an operator from a state (and its inputs) to a Step:
\* the state it leaves, whether an exception left it, and the handlers run.
State == [current_project |-> current_project, files |-> current_project_files,
          stage |-> current_stage, kb |-> project_state, menu |-> active_menu,
          context |-> context, log |-> action_log, fs |-> fs,
          tracker |-> progress_tracker]

Step(s, raised, calls, returned) ==
    [st |-> s, raised |-> raised, calls |-> calls, returned |-> returned]

\* ------------------------------------------------------ Actions dispatcher
\* A faulty log_action_result: the record is written in front of the others.
log_action_result_in_front(log, action_name, result) ==
    <<[action |-> action_name, result |-> result]>> \o log
log_action_result(log, action_name, result) ==
    Append(log, [action |-> action_name, result |-> result])

\* The try block of Actions.execute_action around the handler call whose
\* outcome is o: the except branch logs the error dict, the normal path
\* appends to recent_actions and logs the handler's result.
handler_called(s, name, o) ==
    IF o.raised
    THEN Step([s EXCEPT !.log = log_action_result(@, name, ErrorResult)],
              FALSE, <<name>>, NoneResult)
    ELSE Step([s EXCEPT !.context = [project_state |-> o.state,
                                     current_project |-> o.project,
                                     recent_actions |-> Append(@.recent_actions, name)],
                        !.fs = o.fs,
                        !.log = log_action_result(@, name, o.result)],
              FALSE, <<name>>, NoneResult)

\* Actions.execute_action: no return statement on any path, so the caller gets None.
actions_execute_action(s, name, d, ok) ==
    IF name \in HandlerNames \cup AttributeNames
    THEN handler_called(s, name, Handler(name, s.context, s.fs, d, ok))
    ELSE Step(s, FALSE, <<>>, NoneResult)

\* ------------------------------------------------- Actions.prioritize_actions
\* Actions.get_available_actions: the flattened catalog, in its order.  Every
\* project_management and code_development entry is listed; of each later
\* category, whose entries differ only in name, the first ones are listed.
Action(name, type) == [name |-> name, type |-> type]
Catalog ==
    << Action("start_new_project", "project_management"),
       Action("project_retrospective", "project_management"),
       Action("research_and_plan", "code_development"),
       Action("implement_initial_prototype", "code_development"),
       Action("generate_code", "code_development"),
       Action("run_code", "code_development"),
       Action("write_tests", "code_development"),
       Action("analyze_code", "code_development"),
       Action("view_files", "file_management"),
       Action("create_file", "file_management"),
       Action("commit_changes", "git"),
       Action("push_changes", "git"),
       Action("view_commit_history", "git"),
       Action("create_issue", "issue_tracking"),
       Action("create_pull_request", "pull_requests"),
       Action("view_code_diff", "code_review"),
       Action("view_test_results", "testing"),
       Action("run_unit_tests", "testing") >>

\* priority_score, the key function nested in prioritize_actions; state is
\* its project_state, context.get("project_state", "idle")
priority_score(state, action) ==
    IF state = "idle" /\ action.name \in {"start_new_project", "continue_project"}
    THEN 10
    ELSE IF state = "in_progress" /\ action.type = "code_development" THEN 8
    ELSE IF state = "in_progress" /\ action.type = "file_management" THEN 7
    ELSE IF state = "in_progress" /\ action.type = "git" THEN 6
    ELSE IF state = "review" /\ action.type = "testing" THEN 9
    ELSE IF state = "review" /\ action.name = "analyze_code" THEN 8
    ELSE 5

\* sorted(..., key=priority_score, reverse=True): a stable sort, so an element
\* goes behind every element placed before it whose score is not smaller
\* A sort that is not stable: an element goes in front of the elements of
\* equal score placed before it.
RECURSIVE insert_unstable(_, _, _)
insert_unstable(placed, a, state) ==
    IF placed = <<>> THEN <<a>>
    ELSE IF priority_score(state, Head(placed)) > priority_score(state, a)
         THEN <<Head(placed)>> \o insert_unstable(Tail(placed), a, state)
         ELSE <<a>> \o placed

RECURSIVE insert(_, _, _)
insert(placed, a, state) ==
    IF placed = <<>> THEN <<a>>
    ELSE IF priority_score(state, Head(placed)) >= priority_score(state, a)
         THEN <<Head(placed)>> \o insert(Tail(placed), a, state)
         ELSE <<a>> \o placed

RECURSIVE sorted(_, _)
sorted(actions, state) ==
    IF actions = <<>> THEN <<>>
    ELSE insert(sorted(SubSeq(actions, 1, Len(actions) - 1), state),
                actions[Len(actions)], state)

\* Actions.prioritize_actions; c is Actions.context
prioritize_actions(c) == sorted(Catalog, c.project_state)

\* ------------------------------------------------------- Progress tracker
TrackerKeys == ProjectNames \cup {"unknown_project"}
NoProgress == [present |-> FALSE, current_stage |-> "planning",
               stages_completed |-> <<>>, total_actions |-> 0,
               errors_encountered |-> 0, tests_written |-> 0, commits_made |-> 0]
ProjectProgress == [NoProgress EXCEPT !.present = TRUE]

\* ProjectProgress.stage_requirements and is_stage_complete
stage_requirements(stage) ==
    CASE stage = "planning" -> {"research_and_plan.md"}
      [] stage = "implementation" -> {"main.py", "README.md"}
      [] stage = "testing" -> {"test_main.py"}
      [] stage = "review" -> {"code_analysis.md"}
      [] OTHER -> {}

\* A faulty is_stage_complete: one required file is enough.
is_stage_complete_any(stage, project_files) ==
    \E required_file \in stage_requirements(stage) :
       \E i \in 1..Len(project_files) : project_files[i] = required_file

is_stage_complete(stage, project_files) ==
    \A required_file \in stage_requirements(stage) :
       \E i \in 1..Len(project_files) : project_files[i] = required_file

add_action(pp) == [pp EXCEPT !.total_actions = @ + 1]

update_stage(pp, new_stage) ==
    IF pp.current_stage # new_stage
    THEN [pp EXCEPT !.stages_completed = Append(@, pp.current_stage),
                    !.current_stage = new_stage]
    ELSE pp

\* NimbusGuide.update_progress.  ctx_project is context.get('current_project'):
\* "" when the key is missing, None when it is present with value None.
\* Yields the tracker and whether NimbusGuideError was raised.
update_progress(tr, result, ctx_project) ==
    IF ctx_project = None THEN [tracker |-> tr, raised |-> TRUE]
    ELSE LET name == IF ctx_project = "" THEN "unknown_project" ELSE ctx_project
             pp0 == IF tr[name].present THEN tr[name] ELSE ProjectProgress
             pp1 == add_action(pp0)
         IN  IF result.kind = "None"
             THEN [tracker |-> [tr EXCEPT ![name] = pp1], raised |-> TRUE]
             ELSE [tracker |-> [tr EXCEPT ![name] =
                                   IF result.stage # "" THEN update_stage(pp1, result.stage)
                                   ELSE pp1],
                   raised |-> FALSE]

\* ProjectProgress.analyze_progress, elapsed seconds after start_time: each
\* ratio as <<numerator, denominator>>; a denominator of 0 raises ZeroDivisionError
analyze_progress(pp, elapsed) ==
    [raised |-> elapsed = 0,
     action_frequency |-> <<pp.total_actions, elapsed>>,
     error_rate |-> <<pp.errors_encountered, IF pp.total_actions > 1 THEN pp.total_actions ELSE 1>>,
     test_coverage |-> <<pp.tests_written, IF pp.total_actions > 1 THEN pp.total_actions ELSE 1>>,
     commit_frequency |-> <<pp.commits_made, IF pp.total_actions > 1 THEN pp.total_actions ELSE 1>>]

\* NimbusGuide.generate_recommendations
generate_recommendations(stage, progress_analysis) ==
    CASE stage = "planning" -> <<"research_and_plan", "create_file">>
      [] stage = "implementation" ->
            <<"implement_initial_prototype", "generate_code", "edit_file">>
      [] stage = "testing" -> <<"write_tests", "run_code", "analyze_code">>
      [] stage = "review" -> <<"analyze_code", "project_retrospective">>
      [] OTHER -> <<>>

\* A faulty provide_guidance: the last entry of the list is recommended.
guided_last(recs, analysis) ==
    [fallback |-> FALSE, progress_analysis |-> analysis,
     recommended_action |-> IF recs = <<>> THEN None ELSE recs[Len(recs)],
     alternative_actions |-> IF recs = <<>> THEN <<>> ELSE SubSeq(recs, 1, Len(recs) - 1)]
\* NimbusGuide.provide_guidance, its return for the recommendations recs
guided(recs, analysis) ==
    [fallback |-> FALSE, progress_analysis |-> analysis,
     recommended_action |-> IF recs = <<>> THEN None ELSE recs[1],
     alternative_actions |-> IF recs = <<>> THEN <<>> ELSE Tail(recs)]

\* NimbusGuide.provide_guidance for the project p of the context (None when
\* there is none).  Without a progress record it calls super().provide_guidance,
\* which no base class has; that and a raising analyze_progress end in the
\* except branch, which returns generate_fallback_guidance()
provide_guidance(tr, p, elapsed) ==
    IF p # None /\ tr[p].present /\ ~analyze_progress(tr[p], elapsed).raised
    THEN guided(generate_recommendations(tr[p].current_stage,
                                         analyze_progress(tr[p], elapsed)),
                analyze_progress(tr[p], elapsed))
    ELSE [fallback |-> TRUE, progress_analysis |-> <<>>,
          recommended_action |-> "analyze_project_state", alternative_actions |-> <<>>]

TrackedTotal(tr) ==
    tr["p1"].total_actions + tr["p2"].total_actions + tr["unknown_project"].total_actions

\* ------------------------------------------------------------------ Nimbus
\* execute_<name> methods that class Nimbus defines (hasattr succeeds)
NimbusMethods == {"start_new_project", "continue_project", "exit_project",
                  "review_project", "analyze_project_state"}

\* class EnvironmentManager defines no create_directory: the call at
\* nimbus.py:538 raises AttributeError.
HasCreateDirectory == FALSE

\* make_decision is declared (self, structured_context); project_loop calls it
\* with a second positional argument, which raises TypeError at the call.
MakeDecisionTakesStage == FALSE

save_project(s) ==
    IF s.current_project # None THEN [s EXCEPT !.kb = "saved"] ELSE s

execute_exit_project(s) ==
    Step([save_project(s) EXCEPT !.current_project = None, !.files = <<>>,
                                 !.kb = "idle", !.menu = "main"],
         FALSE, <<>>, NoneResult)

reset_project_state(s) ==
    [s EXCEPT !.kb = "idle", !.current_project = None, !.files = <<>>]

\* project_loop: sets the dev menu, then its first iteration calls
\* make_decision(structured_context, current_stage).
project_loop(s) ==
    IF s.current_project = None THEN Step(s, TRUE, <<>>, NoneResult)
    ELSE IF ~MakeDecisionTakesStage
         THEN Step([s EXCEPT !.menu = "dev"], TRUE, <<>>, NoneResult)
         ELSE Step([s EXCEPT !.menu = "dev"], FALSE, <<>>, NoneResult)

\* create_initial_project_structure: README.md, then create_directory("src")
create_initial_project_structure(s, name) ==
    LET s1 == [s EXCEPT !.fs = create_file_fs(@, name, "README.md"),
                        !.files = Append(@, "README.md")]
    IN  IF ~HasCreateDirectory THEN Step(s1, TRUE, <<>>, NoneResult)
        ELSE Step([s1 EXCEPT !.fs = create_file_fs(create_file_fs(@, name, "src/main.py"),
                                                   name, "requirements.txt"),
                             !.files = @ \o <<"src/main.py", "requirements.txt">>],
                  FALSE, <<>>, NoneResult)

\* Nimbus.start_new_project; name is the project name the oracle (or the clock) gives
\* c is what create_initial_project_structure left
start_new_project_rest(c) ==
    IF c.raised THEN c
    ELSE project_loop([c.st EXCEPT !.kb = "in_progress", !.stage = "planning"])

start_new_project(s, name) ==
    start_new_project_rest(
        create_initial_project_structure(
            [s EXCEPT !.fs = [@ EXCEPT !.projects = @ \cup {name}],
                      !.current_project = name, !.files = <<>>], name))

\* Nimbus.execute_continue_project once a project is selected (s1), with
\* listed the files list_files gives.  The three branches that give up
\* (state not resumable, directory missing, no files) each call
\* reset_project_state, which empties the file list, then start_new_project.
continue_selected(s1, listed, name) ==
    IF \/ s1.kb \notin {"in_progress", "saved"}
       \/ ~project_exists(s1.fs, s1.current_project)
       \/ listed = <<>>
    THEN start_new_project(reset_project_state(s1), name)
    ELSE project_loop([s1 EXCEPT !.files = listed, !.kb = "in_progress"])

select_project_to_continue(s, pick) ==
    IF s.current_project = None THEN [s EXCEPT !.current_project = pick] ELSE s

\* Nimbus.execute_continue_project; pick is existing_projects[0] of list_projects
execute_continue_project(s, pick, name) ==
    IF s.current_project = None /\ s.fs.projects = {} THEN Step(s, FALSE, <<>>, NoneResult)
    ELSE continue_selected(select_project_to_continue(s, pick),
                           list_files(s.fs, select_project_to_continue(s, pick).current_project),
                           name)

\* Nimbus.review_project
review_project(s) ==
    IF s.kb # "in_progress" THEN Step(s, FALSE, <<>>, NoneResult)
    ELSE IF s.current_project # None
         THEN Step([s EXCEPT !.context = [@ EXCEPT !.project_state = "idle",
                                                   !.current_project = None],
                             !.current_project = None, !.kb = "idle"],
                   FALSE, <<"project_retrospective">>, NoneResult)
         ELSE Step(s, FALSE, <<>>, NoneResult)

\* Nimbus.is_project_complete: stage review, README.md and main.py exist, and
\* list_files names a file that starts with test_
StartsWithTest(file) == file \in {"test_main.py"}
is_project_complete(s) ==
    /\ s.stage = "review"
    /\ file_exists(s.fs, s.current_project, "README.md")
    /\ file_exists(s.fs, s.current_project, "main.py")
    /\ \E i \in 1..Len(list_files(s.fs, s.current_project)) :
          StartsWithTest(list_files(s.fs, s.current_project)[i])

\* Nimbus.update_project_state
update_project_state(s, action_name) ==
    CASE action_name \in {"start_new_project", "continue_project"} -> [s EXCEPT !.kb = "in_progress"]
      [] action_name = "review_project" -> [s EXCEPT !.kb = "review"]
      [] action_name = "project_retrospective" -> [s EXCEPT !.kb = "completed"]
      [] OTHER -> s

\* Nimbus.is_action_valid
HasPy(files) == \E i \in 1..Len(files) : files[i] \in {"src/main.py", "main.py",
                                                      "generated_code.py", "test_main.py"}
\* A faulty is_action_valid: with a project every action is valid.
is_action_valid_in_project(s, action_name) ==
    s.current_project # None \/ action_name \in {"start_new_project", "continue_project"}
is_action_valid(s, action_name) ==
    IF s.current_project = None THEN action_name \in {"start_new_project", "continue_project"}
    ELSE IF s.files = <<>> THEN action_name \in {"create_file", "generate_code", "exit_project"}
    ELSE IF action_name \in {"run_code", "write_tests", "analyze_code"} THEN HasPy(s.files)
    ELSE TRUE

\* 'test_' in action_result.get('file_name', '')
ContainsTest(file_name) == file_name \in {"tests/test_main.py"}

\* A faulty update_project_stage: a successful plan skips implementation, and
\* a failed test run sends the project back to planning.
update_project_stage_skips(s, r) ==
    IF s.stage \in {"planning", "implementation", "testing"} /\ r.kind = "None"
    THEN Step(s, TRUE, <<>>, NoneResult)
    ELSE Step([s EXCEPT !.stage =
                 CASE s.stage = "planning" /\ r.status = "success"
                        /\ r.file = "research_and_plan.md" -> "testing"
                   [] s.stage = "testing" /\ r.status = "failed" -> "planning"
                   [] OTHER -> @],
              FALSE, <<>>, NoneResult)

\* Nimbus.update_project_stage(action_result)
update_project_stage(s, r) ==
    IF s.stage \in {"planning", "implementation", "testing"} /\ r.kind = "None"
    THEN Step(s, TRUE, <<>>, NoneResult)
    ELSE Step([s EXCEPT !.stage =
                 CASE s.stage = "planning" /\ r.status = "success"
                        /\ r.file = "research_and_plan.md" -> "implementation"
                   [] s.stage = "implementation" /\ r.status = "success"
                        /\ r.file = "main.py" -> "testing"
                   [] s.stage = "testing" /\ r.status = "success"
                        /\ ContainsTest(r.file_name) -> "review"
                   [] OTHER -> @],
              FALSE, <<>>, NoneResult)

\* The except branch of Nimbus.execute_action: update_progress with the
\* error dict and a context that has no current_project key.
record_error(s) ==
    [s EXCEPT !.tracker = update_progress(@, ErrorResult, "").tracker]

\* The execute_<name> method that hasattr finds, and the result it returns
\* (only execute_analyze_project_state returns a value: the oracle's analysis).
nimbus_method(s, name, ok, pick, pname) ==
    CASE name = "start_new_project" -> start_new_project(s, pname)
      [] name = "continue_project" -> execute_continue_project(s, pick, pname)
      [] name = "exit_project" -> execute_exit_project(s)
      [] name = "review_project" -> review_project(s)
      [] OTHER -> IF ok THEN Step(s, FALSE, <<>>, Result("", "", "", ""))
                  ELSE Step(s, TRUE, <<>>, NoneResult)

\* The dispatch in Nimbus.execute_action: the execute_<name> method when the
\* class has one, else Actions.execute_action({"name": name}).
dispatch(s, name, ok, pick, pname) ==
    IF name \in NimbusMethods
    THEN [nimbus_method(s, name, ok, pick, pname) EXCEPT !.calls = <<"execute_" \o name>> \o @]
    ELSE actions_execute_action(s, name, NoDetails, ok)

\* guide.update_progress with the dispatch result, then collect_feedback and
\* learn_from_experience (which need the oracle: ok); u is what update_progress gave
progress_updated(s2, u, calls, ok) ==
    IF u.raised \/ ~ok THEN Step(record_error([s2 EXCEPT !.tracker = u.tracker]),
                                 FALSE, calls, NoneResult)
    ELSE Step([s2 EXCEPT !.tracker = u.tracker], FALSE, calls, NoneResult)

\* s2 is the state update_project_state left; collect_action_context raises
\* on result.get for write_tests when result is None
state_updated(s2, name, returned, calls, ok) ==
    IF name = "write_tests" /\ returned.kind = "None"
    THEN Step(record_error(s2), FALSE, calls, NoneResult)
    ELSE progress_updated(s2, update_progress(s2.tracker, returned, s2.current_project),
                          calls, ok)

\* The rest of Nimbus.execute_action after the dispatch m; every exception is
\* caught by its except branch, and nothing is returned.
dispatched(m, name, ok) ==
    IF m.raised THEN Step(record_error(m.st), FALSE, m.calls, NoneResult)
    ELSE state_updated(update_project_state(m.st, name), name, m.returned, m.calls, ok)

\* Nimbus.execute_action(action_name).  ok: the external services answer.
nimbus_execute_action(s, name, ok, pick, pname) ==
    dispatched(dispatch(s, name, ok, pick, pname), name, ok)

\* Nimbus.execute_project_action(action); d is action.get("details", {})
feedback_collected(m, ok) == Step(m.st, ~ok, m.calls, NoneResult)

\* A faulty execute_project_action: the generic action is dispatched twice.
dispatched_again(s, first, name, d, ok) ==
    [actions_execute_action(first.st, name, d, ok) EXCEPT
        !.calls = first.calls \o @]
execute_project_action_twice(s, name, d, ok) ==
    IF ~is_action_valid(s, name) THEN Step(s, FALSE, <<>>, NoneResult)
    ELSE feedback_collected(IF name \in NimbusMethods THEN Step(s, FALSE, <<>>, NoneResult)
                            ELSE dispatched_again(s, actions_execute_action(s, name, d, ok),
                                                  name, d, ok), ok)
execute_project_action(s, name, d, ok) ==
    IF ~is_action_valid(s, name) THEN Step(s, FALSE, <<>>, NoneResult)
    ELSE feedback_collected(IF name \in NimbusMethods THEN Step(s, FALSE, <<>>, NoneResult)
                            ELSE actions_execute_action(s, name, d, ok), ok)

\* ---------------------------------------------------------------- deciding
preferred_actions(stage) ==
    CASE stage = "planning" -> {"research_and_plan", "create_file"}
      [] stage = "implementation" -> {"implement_initial_prototype", "generate_code", "edit_file"}
      [] stage = "testing" -> {"write_tests", "run_code", "analyze_code"}
      [] stage = "review" -> {"analyze_code", "project_retrospective"}
      [] OTHER -> {}

\* Nimbus.get_available_actions
get_available_actions(s) ==
    IF s.current_project # None
    THEN (IF s.files # <<>> THEN <<"edit_file", "delete_file", "analyze_code">> ELSE <<>>)
         \o <<"create_file", "write_tests", "run_code", "commit_changes", "exit_project">>
    ELSE <<"start_new_project", "continue_project">>

\* ConsciousnessEmulator.select_action: the oracle's answer as it is, or the
\* hard-wired default when the call raises
select_action(oracle_up, answer) ==
    IF oracle_up THEN answer ELSE "continue_project"

\* Nimbus.make_decision: the action names it may return
IsPreferred(a, stage) == a \in preferred_actions(stage)
make_decision(s, oracle_up, answer) ==
    LET filtered == SelectSeq(get_available_actions(s), LAMBDA a : IsPreferred(a, s.stage))
    IN  IF filtered # <<>> THEN {filtered[i] : i \in 1..Len(filtered)}
        ELSE {select_action(oracle_up, answer)}

\* -------------------------------------------------------------- persistence
save_interval == 150

\* seconds that pass between two readings of time.time()
Delays == {0, save_interval - 1, save_interval}

\* longterm_memory is a dict: a function from some of MemoryKeys to MemoryValues
MemoryKeys == <<"facts", "thoughts">>
MemoryValues == {"v1", "v2"}
Maps == UNION {[S -> MemoryValues] : S \in SUBSET {MemoryKeys[i] : i \in 1..Len(MemoryKeys)}}
EmptyMap == [k \in {} |-> "v1"]

\* pickle.dump(state, f): the file is a sequence of tokens, the items of
\* state['longterm_memory'] one after the other, then recent_experiences (the
\* query result, here the empty list), then pickle's STOP opcode "."
RECURSIVE Items(_, _)
Items(m, i) ==
    IF i > Len(MemoryKeys) THEN <<>>
    ELSE (IF MemoryKeys[i] \in DOMAIN m THEN <<MemoryKeys[i], m[MemoryKeys[i]]>> ELSE <<>>)
         \o Items(m, i + 1)
pickle_dump(m) == <<"longterm_memory">> \o Items(m, 1) \o <<"recent_experiences", "[]", ".">>

\* pickle.load(f) returns a state with key 'longterm_memory' only for a whole
\* file; on a truncated or damaged one it raises (EOFError, UnpicklingError)
Unpickles(file) ==
    /\ Len(file) >= 4 /\ (Len(file) - 4) % 2 = 0
    /\ file[1] = "longterm_memory" /\ file[Len(file)] = "."
    /\ file[Len(file) - 2] = "recent_experiences"
\* A faulty pickle.load: it stops after the first item of the dict.
pickle_load_first(file) ==
    [k \in {file[2]} |-> file[3]]
pickle_load(file) ==
    [k \in {file[2 * i] : i \in 1..((Len(file) - 4) \div 2)} |->
        file[1 + CHOOSE j \in 2..(Len(file) - 3) : file[j] = k /\ j % 2 = 0]]

\* what a write may do: "saved"; "query_failed", get_recent_experiences raises;
\* "truncated", the write fails after open(file_path, 'wb'); "partial", it
\* fails after a part of the pickle is in the file
Outcomes == {"saved", "query_failed", "truncated", "partial"}

\* the persistent part of the objects
Memory == [now |-> now, last_save_time |-> last_save_time,
           longterm_memory |-> longterm_memory, memory_file |-> memory_file]
MemStep(m, raised, due, writes, returned) ==
    [mem |-> m, raised |-> raised, due |-> due, writes |-> writes, returned |-> returned]

\* KnowledgeBase.save_memory_state
kb_save_memory_state(m, outcome) ==
    CASE outcome = "saved" -> [m EXCEPT !.memory_file = pickle_dump(m.longterm_memory)]
      [] outcome = "truncated" -> [m EXCEPT !.memory_file = <<>>]
      [] OTHER -> [m EXCEPT !.memory_file =
                      SubSeq(pickle_dump(m.longterm_memory), 1,
                             Len(pickle_dump(m.longterm_memory)) - 1)]

\* Nimbus.save_memory_state: the query, then the write
save_memory_state(m, outcome) ==
    IF outcome = "query_failed" THEN MemStep(m, TRUE, TRUE, 0, FALSE)
    ELSE MemStep(kb_save_memory_state(m, outcome),
                 outcome # "saved", TRUE, 1, FALSE)

\* A faulty check_and_save_memory: after a save it starts counting from zero.
saved_at_zero(r, t) ==
    IF r.raised THEN r ELSE [r EXCEPT !.mem.last_save_time = 0]
\* Nimbus.check_and_save_memory at time t
saved_at(r, t) ==
    IF r.raised THEN r ELSE [r EXCEPT !.mem.last_save_time = t]
\* A faulty check_and_save_memory: it saves only after more than the interval.
check_and_save_memory_late(m, t, outcome) ==
    IF t - m.last_save_time > save_interval
    THEN saved_at(save_memory_state([m EXCEPT !.now = t], outcome), t)
    ELSE MemStep([m EXCEPT !.now = t], FALSE, FALSE, 0, FALSE)
check_and_save_memory(m, t, outcome) ==
    IF t - m.last_save_time >= save_interval
    THEN saved_at(save_memory_state([m EXCEPT !.now = t], outcome), t)
    ELSE MemStep([m EXCEPT !.now = t], FALSE, FALSE, 0, FALSE)

\* KnowledgeBase.load_memory_state: only FileNotFoundError is caught
load_memory_state(m) ==
    IF m.memory_file = None THEN MemStep(m, FALSE, FALSE, 0, FALSE)
    ELSE IF ~Unpickles(m.memory_file)
    THEN MemStep(m, TRUE, FALSE, 0, FALSE)
    ELSE MemStep([m EXCEPT !.longterm_memory = pickle_load(m.memory_file)],
                 FALSE, FALSE, 0, TRUE)

\* Nimbus.initialize_system: the load is not inside a try, so what it raises
\* leaves initialize_system; after a False the new environment is set up
initialize_system(m) == load_memory_state(m)

\* Nimbus.make_decision in full.  The keys of the dict that
\* gather_structured_context returns, and the dict as make_decision leaves it
structured_context_keys ==
    {"system_status", "recent_experiences", "long_term_memory", "current_tasks",
     "performance_metrics", "user_feedback", "available_actions", "environment",
     "consciousness_state", "guide_progress_tracker"}

\* available actions of type git
GitActions == {"commit_changes"}

filtered_actions(s) ==
    SelectSeq(get_available_actions(s), LAMBDA a : IsPreferred(a, s.stage))

\* the list a selection is made from: filtered_actions by random.choice, or,
\* when it is empty, structured_context['available_actions'] by select_action
candidates(s) ==
    IF filtered_actions(s) # <<>> THEN filtered_actions(s) ELSE get_available_actions(s)

\* The decision for the chosen name a: an entry of get_available_actions has
\* the keys name and type only, the default and an oracle reply that follows
\* the prompt have a details key
decision(s, a) ==
    [action |-> a, details |-> (filtered_actions(s) = <<>>),
     candidates |-> candidates(s),
     context |-> structured_context_keys \cup {"guide_suggestions"}]

\* ----------------------------------------------------------- specification
ActionNames == NimbusMethods \cup HandlerNames \cup UnknownNames \cup AttributeNames

\* names the oracle may answer with
OracleNames == {"start_new_project", "continue_project", "exit_project", "review_project",
                "generate_code", "view_commit_history"}

\* results update_project_stage may be handed: what handlers return, and None
ResultSet == {NoneResult, Failed,
              Result("success", "research_and_plan.md", "", "planning"),
              Result("success", "main.py", "", "implementation"),
              Result("success", "", "tests/test_main.py", "testing"),
              Result("success", "", "main.py", "")}

NoTracker == [k \in TrackerKeys |-> NoProgress]
NoFiles == [p \in ProjectNames |-> {}]

\* What the last operation was: the method (op) and action name, the result
\* handed to update_project_stage (arg), the stage it started from, whether an
\* exception left it, the handlers and execute_<name> methods it called, what
\* its caller got back, the list prioritize_actions returned (ranked), and
\* the value a method of the guide or make_decision returned (out).
Last(op, name, arg, raised, calls, returned, handler_raised, oracle_up, ranked) ==
    [op |-> op, name |-> name, arg |-> arg, pre_stage |-> current_stage,
     raised |-> raised, calls |-> calls, returned |-> returned,
     handler_raised |-> handler_raised, oracle_up |-> oracle_up, ranked |-> ranked,
     out |-> <<>>]

Set(s) ==
    /\ current_project' = s.current_project
    /\ current_project_files' = s.files
    /\ current_stage' = s.stage
    /\ project_state' = s.kb
    /\ active_menu' = s.menu
    /\ context' = s.context
    /\ action_log' = s.log
    /\ fs' = s.fs
    /\ progress_tracker' = s.tracker

\* the time of a write that has not happened
Never == 0 - 1

\* What the last persistence operation was: whether an exception left it,
\* whether a save was due, the writes to the file it made, the seconds since
\* the last save it found (elapsed), the map the file was last written from
\* (written), with whether the write went through in full (whole), the clock
\* reading of that write (written_at) and of the write before it (written_before).
MemLast(op, r) ==
    [op |-> op, raised |-> r.raised, due |-> r.due, writes |-> r.writes,
     returned |-> r.returned, elapsed |-> r.mem.now - last_save_time,
     written |-> IF r.writes = 0 THEN mem_last.written
                 ELSE [whole |-> ~r.raised, map |-> r.mem.longterm_memory],
     written_at |-> IF r.writes = 0 THEN mem_last.written_at ELSE r.mem.now,
     written_before |-> IF r.writes = 0 THEN mem_last.written_before
                        ELSE mem_last.written_at]
NoMemStep == MemStep(Memory, FALSE, FALSE, 0, FALSE)

MemSet(op, r) ==
    /\ now' = r.mem.now
    /\ last_save_time' = r.mem.last_save_time
    /\ longterm_memory' = r.mem.longterm_memory
    /\ memory_file' = r.mem.memory_file
    /\ mem_last' = MemLast(op, r)
    /\ UNCHANGED tool_vars

\* A persistence operation that left r: it does not touch the project
MemDo(op, r) ==
    /\ MemSet(op, r)
    /\ last' = Last(op, "", NoneResult, r.raised, <<>>, NoneResult, FALSE, TRUE, <<>>)
    /\ UNCHANGED <<driver, current_project, current_project_files, current_stage,
                   project_state, active_menu, context, action_log, fs, progress_tracker>>

\* no EnvironmentManager of its own and no ContactCallerAgent are in use
NoAgent == [contacts |-> <<>>, file |-> [exists |-> FALSE, data |-> <<>>],
            pc |-> "unused", calls |-> <<>>]
NoTools ==
    /\ disk = EmptyDisk(<<"LF">>)
    /\ agent = NoAgent

\* After Nimbus.__init__ and KnowledgeBase.__init__ at time 0
Constructed ==
    /\ phase = "constructed"
    /\ now = 0
    /\ last_save_time = 0
    /\ mem_last = [op |-> "init", raised |-> FALSE, due |-> FALSE, writes |-> 0,
                   returned |-> FALSE, elapsed |-> 0,
                   written |-> [whole |-> FALSE, map |-> EmptyMap],
                   written_at |-> Never, written_before |-> Never]

\* The state after Nimbus.__init__: no project, and a project directory that
\* is empty or holds what an earlier run left (start_new_project leaves README.md).
Init ==
    /\ driver \in {"loop", "api"}
    /\ loop_alive = TRUE
    /\ current_project = None
    /\ current_project_files = <<>>
    /\ current_stage = None
    /\ project_state = "idle"
    /\ active_menu = "main"
    /\ context = [project_state |-> "idle", current_project |-> None, recent_actions |-> <<>>]
    /\ action_log = <<>>
    /\ fs \in {[projects |-> {}, files |-> NoFiles],
               [projects |-> {"p1"}, files |-> [NoFiles EXCEPT !["p1"] = {"README.md"}]]}
    /\ progress_tracker = NoTracker
    /\ last = Last("init", "", NoneResult, FALSE, <<>>, NoneResult, FALSE, TRUE, <<>>)
    /\ Constructed
    /\ NoTools
    /\ in_flight = <<>>
    /\ longterm_memory = EmptyMap
    /\ memory_file \in IF driver = "api" THEN {None}
                       ELSE {None, <<>>, pickle_dump([k \in {"facts"} |-> "v1"])}

Room == Len(action_log) < MaxLog /\ TrackedTotal(progress_tracker) < MaxTracked

HandlerRaised(s, name, d, ok) ==
    name \in HandlerNames \cup AttributeNames /\ Handler(name, s.context, s.fs, d, ok).raised

\* existing_projects[0]: any directory os.listdir may list first
Picks == IF fs.projects = {} THEN {None} ELSE fs.projects

\* Inputs an operation does not read are held at one value: only
\* continue_project lists the directories, only a start (which a continue may
\* fall back to) asks for a project name, and only these handlers read details.
ReadsInputs(name, pick, pname) ==
    /\ pick \in Picks
    /\ name # "continue_project" => pick = CHOOSE p \in Picks : TRUE
    /\ name \notin {"start_new_project", "continue_project"} => pname = "p1"
ReadsDetails(name, d) ==
    name \notin {"start_new_project", "generate_code", "write_tests"} => d = NoDetails

\* An operation that left m: the object takes m's state, and last records it
Do(op, name, arg, m, handler_raised, oracle_up) ==
    /\ Set(m.st)
    /\ last' = Last(op, name, arg, m.raised, m.calls, m.returned, handler_raised,
                    oracle_up, <<>>)

\* main_loop after execute_action left m: project_loop follows a start or a
\* continue that left a project
loop_continued(m, a) ==
    IF a \in {"continue_project", "start_new_project"} /\ m.st.current_project # None
    THEN [project_loop(m.st) EXCEPT !.calls = m.calls]
    ELSE Step(m.st, FALSE, m.calls, NoneResult)

main_loop(s, a, oracle_up, pick, pname) ==
    loop_continued(nimbus_execute_action(s, a, oracle_up, pick, pname), a)

\* check_and_save_memory ends the iteration that no exception has left
loop_saved(m, t, outcome) ==
    IF m.raised THEN NoMemStep ELSE check_and_save_memory(Memory, t, outcome)

LoopStep(m, a, oracle_up, r) ==
    /\ Do("main_loop", a, NoneResult, m, HandlerRaised(State, a, NoDetails, oracle_up),
          oracle_up)
    /\ MemSet("main_loop", r)
    /\ loop_alive' = (~m.raised /\ ~r.raised)

\* Inputs an iteration does not read are held at one value: the clock is read
\* by check_and_save_memory, and the storage is used when a save is due
ReadsStorage(m, dt, outcome) ==
    /\ now + dt <= MaxNow
    /\ m.raised => dt = 0
    /\ (m.raised \/ now + dt - last_save_time < save_interval) => outcome = "saved"

\* One iteration of Nimbus.main_loop
Iteration(a, oracle_up, pick, pname, dt, outcome) ==
    /\ ReadsInputs(a, pick, pname)
    /\ ReadsStorage(main_loop(State, a, oracle_up, pick, pname), dt, outcome)
    /\ LoopStep(main_loop(State, a, oracle_up, pick, pname), a, oracle_up,
                loop_saved(main_loop(State, a, oracle_up, pick, pname), now + dt, outcome))

MainLoop(oracle_up, answer, pick, pname, dt, outcome) ==
    /\ driver = "loop" /\ phase = "running" /\ loop_alive /\ Room
    /\ \E a \in make_decision(State, oracle_up, answer) :
         Iteration(a, oracle_up, pick, pname, dt, outcome)
    /\ UNCHANGED <<driver, phase, in_flight>>

\* Nimbus.start up to the loop: initialize_system
InitializeSystem ==
    /\ driver = "loop" /\ phase = "constructed" /\ loop_alive
    /\ MemDo("initialize_system", initialize_system(Memory))
    /\ phase' = IF initialize_system(Memory).raised THEN "constructed" ELSE "running"
    /\ loop_alive' = ~initialize_system(Memory).raised
    /\ UNCHANGED in_flight

\* __main__'s finally: Nimbus.shutdown, once start() was left by an exception
\* or by a cancellation (which may come at any time, and ends what is in flight)
Shutdown ==
    /\ driver = "loop" /\ phase # "closed"
    /\ MemDo("shutdown", NoMemStep)
    /\ phase' = "closed"
    /\ loop_alive' = FALSE
    /\ in_flight' = <<>>

\* Nimbus.execute_action called directly
ExecuteAction(name, ok, pick, pname) ==
    /\ driver = "api" /\ Room
    /\ ReadsInputs(name, pick, pname)
    /\ Do("execute_action", name, NoneResult,
          nimbus_execute_action(State, name, ok, pick, pname),
          HandlerRaised(State, name, NoDetails, ok), TRUE)
    /\ UNCHANGED <<driver, loop_alive, in_flight, memory_vars, tool_vars>>

\* Actions.execute_action called directly
ActionsExecuteAction(name, d, ok) ==
    /\ driver = "api" /\ Room
    /\ ReadsDetails(name, d)
    /\ Do("actions_execute_action", name, NoneResult,
          actions_execute_action(State, name, d, ok),
          HandlerRaised(State, name, d, ok), TRUE)
    /\ UNCHANGED <<driver, loop_alive, in_flight, memory_vars, tool_vars>>

\* Nimbus.execute_project_action called directly
ExecuteProjectAction(name, d, ok) ==
    /\ driver = "api" /\ Room
    /\ ReadsDetails(name, d)
    /\ Do("execute_project_action", name, NoneResult,
          execute_project_action(State, name, d, ok), FALSE, TRUE)
    /\ UNCHANGED <<driver, loop_alive, in_flight, memory_vars, tool_vars>>

Next ==
    \/ \E oracle_up \in BOOLEAN, answer \in OracleNames, pick \in ProjectNames \cup {None},
          pname \in ProjectNames, dt \in Delays, outcome \in Outcomes :
         MainLoop(oracle_up, answer, pick, pname, dt, outcome)
    \/ InitializeSystem
    \/ Shutdown
    \/ \E name \in ActionNames, ok \in BOOLEAN, pick \in ProjectNames \cup {None},
          pname \in ProjectNames :
         ExecuteAction(name, ok, pick, pname)
    \/ \E name \in ActionNames, d \in DetailsSet, ok \in BOOLEAN :
         ActionsExecuteAction(name, d, ok)
    \/ \E name \in ActionNames, d \in DetailsSet, ok \in BOOLEAN :
         ExecuteProjectAction(name, d, ok)

Spec == Init /\ [][Next]_vars

\* ------------------------------------------- single method calls on an object
\* The fields one method call may find.  nimbus_test_gui.py and
\* test_environment.py build a Nimbus, assign its fields and call its methods
\* one at a time; a method is then judged on every typed value of the fields
\* it reads.  The project, when there is one, is p1 with its directory.
FileLists == {<<"README.md">>, <<"README.md", "research_and_plan.md">>,
              <<"README.md", "main.py", "test_main.py">>}
StageValues == {None} \cup {project_stages[i] : i \in 1..Len(project_stages)}
ProjectStates == {"idle", "in_progress", "review", "completed"}

UnitInit ==
    /\ driver = "api"
    /\ loop_alive = TRUE
    /\ current_project \in {None, "p1"}
    /\ current_project_files \in (IF current_project = None THEN {<<>>}
                                   ELSE FileLists \cup {<<>>})
    /\ current_stage \in StageValues
    /\ project_state \in ProjectStates
    /\ active_menu = IF current_project = None THEN "main" ELSE "dev"
    /\ context = [project_state |-> project_state, current_project |-> current_project,
                  recent_actions |-> <<>>]
    /\ action_log = <<>>
    /\ fs = [projects |-> {"p1"},
             files |-> [NoFiles EXCEPT !["p1"] =
                          {current_project_files[i] : i \in 1..Len(current_project_files)}]]
    /\ progress_tracker = NoTracker
    /\ last = Last("init", "", NoneResult, FALSE, <<>>, NoneResult, FALSE, TRUE, <<>>)
    /\ Constructed
    /\ NoTools
    /\ in_flight = <<>>
    /\ longterm_memory = EmptyMap
    /\ memory_file = None

\* Nimbus.update_project_stage called with a handler's result r
UpdateProjectStage(r) ==
    /\ Do("update_project_stage", "", r, update_project_stage(State, r), FALSE, TRUE)
    /\ UNCHANGED <<driver, loop_alive, in_flight, memory_vars, tool_vars>>

\* Nimbus.execute_exit_project called directly
ExitProject ==
    /\ Do("execute_exit_project", "exit_project", NoneResult, execute_exit_project(State),
          FALSE, TRUE)
    /\ UNCHANGED <<driver, loop_alive, in_flight, memory_vars, tool_vars>>

\* Nimbus.review_project called directly
ReviewProject ==
    /\ Do("review_project", "review_project", NoneResult, review_project(State), FALSE, TRUE)
    /\ UNCHANGED <<driver, loop_alive, in_flight, memory_vars, tool_vars>>

\* Nimbus.reset_project_state called directly
ResetProjectState ==
    /\ Do("reset_project_state", "", NoneResult,
          Step(reset_project_state(State), FALSE, <<>>, NoneResult), FALSE, TRUE)
    /\ UNCHANGED <<driver, loop_alive, in_flight, memory_vars, tool_vars>>

\* Nimbus.project_loop, which main_loop enters with a project active
ProjectLoop ==
    /\ current_project # None
    /\ Do("project_loop", "", NoneResult, project_loop(State), FALSE, TRUE)
    /\ UNCHANGED <<driver, loop_alive, in_flight, memory_vars, tool_vars>>

\* Actions.prioritize_actions called directly
PrioritizeActions ==
    /\ last' = Last("prioritize_actions", "", NoneResult, FALSE, <<>>, NoneResult, FALSE,
                    TRUE, prioritize_actions(context))
    /\ UNCHANGED <<driver, loop_alive, current_project, current_project_files, current_stage,
                   project_state, active_menu, context, action_log, fs, progress_tracker,
                   in_flight, memory_vars, tool_vars>>

\* Nimbus.make_decision called with the context gather_structured_context built
MakeDecision(oracle_up, answer) ==
    /\ filtered_actions(State) # <<>> => (oracle_up /\ answer = "continue_project")
    /\ \E a \in make_decision(State, oracle_up, answer) :
         last' = [Last("make_decision", a, NoneResult, FALSE, <<>>, NoneResult, FALSE,
                       oracle_up, <<>>) EXCEPT !.out = decision(State, a)]
    /\ UNCHANGED <<driver, loop_alive, current_project, current_project_files, current_stage,
                   project_state, active_menu, context, action_log, fs, progress_tracker,
                   in_flight, memory_vars, tool_vars>>

UnitNext ==
    \/ \E r \in ResultSet : UpdateProjectStage(r)
    \/ \E oracle_up \in BOOLEAN, answer \in OracleNames : MakeDecision(oracle_up, answer)
    \/ ExitProject
    \/ ReviewProject
    \/ ResetProjectState
    \/ ProjectLoop
    \/ PrioritizeActions

UnitSpec == UnitInit /\ [][UnitNext]_vars

\* Nimbus.execute_project_action called, inside a project or outside one
ProjectActionNext ==
    \E name \in ActionNames, d \in DetailsSet, ok \in BOOLEAN : ExecuteProjectAction(name, d, ok)

ProjectActionSpec == UnitInit /\ [][ProjectActionNext]_vars

\* ------------------------------------- single calls on the persistent state
\* A KnowledgeBase whose longterm_memory was assigned, and no snapshot yet
MemoryInit ==
    /\ driver = "api"
    /\ loop_alive = TRUE
    /\ current_project = None
    /\ current_project_files = <<>>
    /\ current_stage = None
    /\ project_state = "idle"
    /\ active_menu = "main"
    /\ context = [project_state |-> "idle", current_project |-> None, recent_actions |-> <<>>]
    /\ action_log = <<>>
    /\ fs = [projects |-> {}, files |-> NoFiles]
    /\ progress_tracker = NoTracker
    /\ last = Last("init", "", NoneResult, FALSE, <<>>, NoneResult, FALSE, TRUE, <<>>)
    /\ Constructed
    /\ NoTools
    /\ in_flight = <<>>
    /\ longterm_memory \in Maps
    /\ memory_file = None

\* Nimbus.check_and_save_memory called dt seconds after the last clock reading
CheckAndSaveMemory(dt, outcome) ==
    /\ now + dt <= MaxNow
    /\ now + dt - last_save_time < save_interval => outcome = "saved"
    /\ MemDo("check_and_save_memory", check_and_save_memory(Memory, now + dt, outcome))
    /\ UNCHANGED <<loop_alive, phase, in_flight>>

\* Nimbus.save_memory_state called directly
SaveMemoryState(outcome) ==
    /\ MemDo("save_memory_state", save_memory_state(Memory, outcome))
    /\ UNCHANGED <<loop_alive, phase, in_flight>>

\* KnowledgeBase.load_memory_state called directly
LoadMemoryState ==
    /\ MemDo("load_memory_state", load_memory_state(Memory))
    /\ UNCHANGED <<loop_alive, phase, in_flight>>

\* The process ends and Nimbus() is constructed again: KnowledgeBase.__init__
\* starts from an empty longterm_memory, Nimbus.__init__ reads the clock
Restart ==
    /\ MemDo("init", MemStep([Memory EXCEPT !.longterm_memory = EmptyMap,
                                            !.last_save_time = now],
                             FALSE, FALSE, 0, FALSE))
    /\ UNCHANGED <<loop_alive, phase, in_flight>>

MemoryNext ==
    \/ \E dt \in Delays, outcome \in Outcomes : CheckAndSaveMemory(dt, outcome)
    \/ \E outcome \in Outcomes : SaveMemoryState(outcome)
    \/ LoadMemoryState
    \/ Restart

MemorySpec == MemoryInit /\ [][MemoryNext]_vars

\* ----------------------------------------------- single calls on the guide
\* NimbusGuide.update_progress called with a result and the project of the context
UpdateProgress(result, ctx_project) ==
    /\ TrackedTotal(progress_tracker) < MaxTracked
    /\ progress_tracker' = update_progress(progress_tracker, result, ctx_project).tracker
    /\ last' = Last("update_progress", ctx_project, result,
                    update_progress(progress_tracker, result, ctx_project).raised,
                    <<>>, NoneResult, FALSE, TRUE, <<>>)
    /\ UNCHANGED <<driver, loop_alive, current_project, current_project_files, current_stage,
                   project_state, active_menu, context, action_log, fs, in_flight,
                   memory_vars, tool_vars>>

\* ProjectProgress.is_stage_complete(stage, project_files)
IsStageComplete(stage, project_files) ==
    /\ last' = [Last("is_stage_complete", stage, NoneResult, FALSE, <<>>, NoneResult, FALSE,
                      TRUE, <<>>)
                   EXCEPT !.out = [project_files |-> project_files,
                                   value |-> is_stage_complete(stage, project_files)]]
    /\ UNCHANGED <<driver, loop_alive, current_project, current_project_files, current_stage,
                   project_state, active_menu, context, action_log, fs, progress_tracker,
                   in_flight, memory_vars, tool_vars>>

\* NimbusGuide.provide_guidance for project p, elapsed seconds after the
\* progress record of p was created
ProvideGuidance(p, elapsed) ==
    /\ last' = [Last("provide_guidance", p, NoneResult, FALSE, <<>>, NoneResult, FALSE,
                      TRUE, <<>>)
                   EXCEPT !.out = [elapsed |-> elapsed,
                                   guidance |-> provide_guidance(progress_tracker, p, elapsed)]]
    /\ UNCHANGED <<driver, loop_alive, current_project, current_project_files, current_stage,
                   project_state, active_menu, context, action_log, fs, progress_tracker,
                   in_flight, memory_vars, tool_vars>>

GuideNext ==
    \/ \E result \in ResultSet \cup {ErrorResult}, ctx_project \in ProjectNames \cup {""} :
         UpdateProgress(result, ctx_project)
    \/ \E stage \in StageValues,
          project_files \in {<<>>, <<"README.md">>, <<"research_and_plan.md">>,
                             <<"README.md", "main.py">>,
                             <<"README.md", "main.py", "test_main.py">>,
                             <<"README.md", "main.py", "tests/test_main.py">>} :
         IsStageComplete(stage, project_files)
    \/ \E p \in ProjectNames \cup {None}, elapsed \in {0, 1, 60} : ProvideGuidance(p, elapsed)

ApiInit == Init /\ driver = "api"

GuideSpec == ApiInit /\ [][GuideNext]_vars

\* -------------------------------------------- single calls on the dispatcher
ActionsNext ==
    \E name \in ActionNames, d \in DetailsSet, ok \in BOOLEAN : ActionsExecuteAction(name, d, ok)

ActionsSpec == ApiInit /\ [][ActionsNext]_vars

\* ------------------------------------ single calls on an EnvironmentManager
\* No Nimbus is running: the objects below are used on their own
NoNimbus ==
    /\ driver = "api"
    /\ loop_alive = TRUE
    /\ current_project = None
    /\ current_project_files = <<>>
    /\ current_stage = None
    /\ project_state = "idle"
    /\ active_menu = "main"
    /\ context = [project_state |-> "idle", current_project |-> None, recent_actions |-> <<>>]
    /\ action_log = <<>>
    /\ fs = [projects |-> {}, files |-> NoFiles]
    /\ progress_tracker = NoTracker
    /\ last = Last("init", "", NoneResult, FALSE, <<>>, NoneResult, FALSE, TRUE, <<>>)
    /\ Constructed
    /\ in_flight = <<>>
    /\ longterm_memory = EmptyMap
    /\ memory_file = None

\* EnvironmentManager(base_path) on an empty directory
EnvInit ==
    /\ NoNimbus
    /\ disk \in {EmptyDisk(linesep) : linesep \in Lineseps}
    /\ agent = NoAgent

\* A method of the EnvironmentManager, called with arg, left r
EnvDo(op, project_name, file_name, arg, r) ==
    /\ disk' = r.disk
    /\ last' = [Last(op, file_name, NoneResult, FALSE, <<>>, NoneResult, FALSE, TRUE, <<>>)
                   EXCEPT !.out = [project_name |-> project_name, arg |-> arg,
                                   value |-> r.value]]
    /\ UNCHANGED <<driver, loop_alive, current_project, current_project_files, current_stage,
                   project_state, active_menu, context, action_log, fs, progress_tracker,
                   in_flight, memory_vars>>

CreateProject(project_name) ==
    /\ EnvDo("create_project", project_name, "", <<>>, create_project(disk, project_name))
    /\ UNCHANGED agent

CreateFile(project_name, file_name, content) ==
    /\ EnvDo("create_file", project_name, file_name, content,
             create_file(disk, project_name, file_name, content))
    /\ UNCHANGED agent

ReadFile(project_name, file_name) ==
    /\ EnvDo("read_file", project_name, file_name, <<>>,
             read_file(disk, project_name, file_name))
    /\ UNCHANGED agent

ModifyFile(project_name, file_name, modifications) ==
    /\ EnvDo("modify_file", project_name, file_name, modifications,
             modify_file(disk, project_name, file_name, modifications))
    /\ UNCHANGED agent

EnvNext ==
    \/ \E project_name \in EnvProjects : CreateProject(project_name)
    \/ \E project_name \in EnvProjects, file_name \in EnvFileNames, content \in Texts :
         CreateFile(project_name, file_name, content)
    \/ \E project_name \in EnvProjects, file_name \in EnvFileNames :
         ReadFile(project_name, file_name)
    \/ \E project_name \in EnvProjects, file_name \in EnvFileNames,
          modifications \in Modifications :
         ModifyFile(project_name, file_name, modifications)

EnvSpec == EnvInit /\ [][EnvNext]_vars

\* --------------------------------------------- the ContactCallerAgent
\* ContactCallerAgent(): the contacts are those of contacts.json, or none
\* when there is no such file; then either run() or single calls (pc "api")
AgentInit ==
    /\ NoNimbus
    /\ disk = EmptyDisk(<<"LF">>)
    /\ \E contacts \in ContactLists(MaxContacts), on_disk \in BOOLEAN,
          pc \in {"api", "running"} :
         /\ ~on_disk => contacts = <<>>
         /\ agent = [contacts |-> contacts,
                     file |-> [exists |-> on_disk, data |-> json_dump(contacts)],
                     pc |-> pc, calls |-> [i \in 1..Len(contacts) |-> 0]]

\* A method of the agent, called with arg, left r
AgentDo(op, name, arg, r) ==
    /\ agent' = r.agent
    /\ last' = [Last(op, name, NoneResult, r.raised, <<>>, NoneResult, FALSE, TRUE, <<>>)
                   EXCEPT !.out = [arg |-> arg, value |-> r.value]]
    /\ UNCHANGED <<driver, loop_alive, current_project, current_project_files, current_stage,
                   project_state, active_menu, context, action_log, fs, progress_tracker,
                   in_flight, memory_vars>>

SelectNextContact(selection) ==
    /\ agent.pc = "api"
    /\ AgentDo("select_next_contact", selection, 0, select_next_contact(agent, selection))
    /\ UNCHANGED disk

MakeCall(i, agent_messages, user_responses, outcome) ==
    /\ agent.pc = "api"
    /\ i \in 1..Len(agent.contacts)
    /\ AgentDo("make_call", agent.contacts[i].name,
               [contact |-> i,
                messages |-> conversation_history(agent_messages, user_responses, 1)],
               make_call(agent, i, agent_messages, user_responses, outcome))
    /\ UNCHANGED disk

Run(selection, agent_messages, user_responses, outcome) ==
    /\ agent.pc = "running"
    /\ AgentDo("run", selection, 0,
               run(agent, selection, agent_messages, user_responses, outcome))
    /\ UNCHANGED disk

AgentNext ==
    \/ \E selection \in SelectionNames : SelectNextContact(selection)
    \/ \E i \in 1..MaxContacts, agent_messages \in AgentMessages,
          user_responses \in UserResponses, outcome \in CallOutcomes :
         MakeCall(i, agent_messages, user_responses, outcome)
    \/ \E selection \in SelectionNames, agent_messages \in AgentMessages,
          user_responses \in UserResponses, outcome \in CallOutcomes :
         Run(selection, agent_messages, user_responses, outcome)

AgentSpec == AgentInit /\ [][AgentNext]_vars

\* ------------------------------------------ the loop, from call to return
\* An iteration of main_loop in two steps: up to the call of execute_action,
\* and from its return to the end of the iteration.  project_loop and
\* WorkflowExecutor.execute_workflow call their dispatcher in the same way,
\* and the task execute_workflow creates runs the learner, not a dispatch.

\* asyncio.create_task(self.execute_action(...)): the caller goes on at once
awaited_as_task(flight) == TRUE
\* `await self.execute_action(...)`: the caller goes on when the call has returned
awaited(flight) == flight = <<>>

\* main_loop up to `await self.execute_action(action['name'])`
BeginDispatch(oracle_up, answer) ==
    /\ driver = "loop" /\ phase = "running" /\ loop_alive /\ Room
    /\ awaited(in_flight) /\ Len(in_flight) < MaxInFlight
    /\ \E a \in make_decision(State, oracle_up, answer) :
         in_flight' = Append(in_flight, [name |-> a, oracle_up |-> oracle_up])
    /\ UNCHANGED <<project_vars, memory_vars, tool_vars>>

\* the call returns or raises, and main_loop runs to the end of the iteration
EndDispatch(pick, pname, dt, outcome) ==
    /\ in_flight # <<>> /\ Room
    /\ Iteration(Head(in_flight).name, Head(in_flight).oracle_up, pick, pname, dt, outcome)
    /\ in_flight' = Tail(in_flight)
    /\ UNCHANGED <<driver, phase>>

LoopInit == Init /\ driver = "loop"

LoopNext ==
    \/ \E oracle_up \in BOOLEAN, answer \in OracleNames : BeginDispatch(oracle_up, answer)
    \/ \E pick \in ProjectNames \cup {None}, pname \in ProjectNames, dt \in Delays,
          outcome \in Outcomes :
         EndDispatch(pick, pname, dt, outcome)
    \/ InitializeSystem
    \/ Shutdown

LoopSpec == LoopInit /\ [][LoopNext]_vars

C2_UnknownActionReturnsUnknown ==
    [][(last'.op = "actions_execute_action" /\ last'.name \in UnknownNames)
          => (/\ last'.returned.kind = "dict"
              /\ last'.returned.status = "unknown"
              /\ UNCHANGED <<current_project, current_project_files, current_stage,
                             context>>)]_vars

\* C3: when a handler raises, the dispatch hands its caller an error result,
\* no exception leaves the operation, and the main loop goes on.
C3_HandlerFailureIsReturned ==
    last.handler_raised => (last.returned.error /\ ~last.raised /\ loop_alive)

\* C4: with the oracle failing, an iteration of main_loop ends without an
\* exception and its action is one of the ranking prioritize_actions gives.
C4_LoopRunsOnFallbackRanking ==
    (last.op = "main_loop" /\ ~last.oracle_up)
        => (/\ ~last.raised
            /\ loop_alive
            /\ \E i \in 1..Len(prioritize_actions(context)) :
                  prioritize_actions(context)[i].name = last.name)

\* C5: prioritize_actions gives every catalog action an integer score from the
\* table, returns the catalog by descending score with equal scores in
\* catalog order, so its first element has the highest score; and in state
\* in_progress every code_development action precedes every git action.
CatalogIndex(a) == CHOOSE i \in 1..Len(Catalog) : Catalog[i] = a
C5_RankingByScoreThenCatalogOrder ==
    last.op = "prioritize_actions" =>
        LET ranked == last.ranked
            score(i) == priority_score(context.project_state, ranked[i])
        IN  /\ Len(ranked) = Len(Catalog)
            /\ \A k \in 1..Len(Catalog) : \E i \in 1..Len(ranked) : ranked[i] = Catalog[k]
            /\ \A i \in 1..Len(ranked) : score(i) \in 5..10
            /\ \A i, j \in 1..Len(ranked) : i < j =>
                  \/ score(i) > score(j)
                  \/ score(i) = score(j) /\ CatalogIndex(ranked[i]) < CatalogIndex(ranked[j])
            /\ \A i \in 1..Len(ranked) : score(1) >= score(i)
            /\ context.project_state = "in_progress" =>
                  \A i, j \in 1..Len(ranked) :
                     (ranked[i].type = "code_development" /\ ranked[j].type = "git") => i < j

\* a ranking in state in_progress that moved code_development actions to the
\* front and kept the tie between the two project_management actions
C5_RankedInProgress ==
    /\ last.op = "prioritize_actions"
    /\ context.project_state = "in_progress"
    /\ last.ranked # Catalog
    /\ last.ranked[1].name = "research_and_plan"
    /\ \E i \in 1..Len(last.ranked) - 1 :
          /\ last.ranked[i].name = "start_new_project"
          /\ last.ranked[i + 1].name = "project_retrospective"

\* C6: start_new_project dispatched from Idle leaves a project whose stage is
\* planning (the first step of the start / advance / exit scenario).
C6_StartSetsPlanning ==
    (last.op = "execute_action" /\ last.name = "start_new_project")
        => (current_project # None /\ current_stage = "planning")

\* C7: while no project is active, an iteration of main_loop that decided
\* anything but start_new_project or continue_project calls no handler and
\* creates no project.
C7_IdleRejectsOtherActions ==
    [][(/\ last'.op = "main_loop"
        /\ current_project = None
        /\ last'.name \notin {"start_new_project", "continue_project"})
          => (last'.calls = <<>> /\ current_project' = None)]_vars

\* C8: start_new_project or continue_project dispatched while a project is
\* active leaves the active project, its file list and its stage as they were.
C8_StartWhileActiveIsRejected ==
    [][(/\ last'.op \in {"execute_action", "main_loop"}
        /\ last'.name \in {"start_new_project", "continue_project"}
        /\ current_project # None)
          => UNCHANGED <<current_project, current_project_files, current_stage>>]_vars

\* C9: over any sequence of calls the orchestrator's stage
\* (Nimbus.current_stage) stays, or moves to the next stage of planning,
\* implementation, testing, review; only an explicit reset (exit, review,
\* reset_project_state) may take it back, to no stage.
NextStage(a, b) ==
    \E i \in 1..(Len(project_stages) - 1) : project_stages[i] = a /\ project_stages[i + 1] = b
ResetOps == {"execute_exit_project", "review_project", "reset_project_state"}
C12_EveryDispatchAppendsOneRecord ==
    [][last'.op = "actions_execute_action"
          => (/\ Len(action_log') = Len(action_log) + 1
              /\ SubSeq(action_log', 1, Len(action_log)) = action_log
              /\ action_log'[Len(action_log')].action = last'.name)]_vars

\* C20: the action main_loop hands to execute_action is always one of the
\* candidates get_available_actions offered for the state it was chosen in,
\* or the default continue_project: an oracle selection outside the
\* candidates is discarded.
C20_DispatchedActionIsACandidate ==
    [][last'.op = "main_loop"
          => last'.name \in {get_available_actions(State)[i] :
                                i \in 1..Len(get_available_actions(State))}
                             \cup {"continue_project"}]_vars

C15_LoadRebuildsTheSavedMap ==
    [][(mem_last'.op = "load_memory_state" /\ mem_last.written.whole)
          => (/\ ~mem_last'.raised /\ mem_last'.returned
              /\ longterm_memory' = mem_last.written.map)]_vars

\* C15 witness: a map of two entries was saved in full, and a load of the file
\* has returned True with longterm_memory equal to that map.
C15_LoadedTwoEntriesAfterRestart ==
    /\ mem_last.op = "load_memory_state" /\ mem_last.returned
    /\ mem_last.written.whole
    /\ longterm_memory = mem_last.written.map
    /\ DOMAIN longterm_memory = {"facts", "thoughts"}
    /\ last.op = "load_memory_state"

\* C16: when the process shuts down (start() was left or cancelled), a final
\* write of the snapshot is made, whether or not save_interval has passed.
C16_ShutdownSavesSnapshot ==
    [][mem_last'.op = "shutdown" => mem_last'.writes = 1]_vars

\* C17: initialize_system is never left by an exception of the snapshot load:
\* with no file, and with a damaged file, the system starts with an empty
\* longterm_memory and enters the loop.
C17_LoadNeverAbortsStart ==
    [][mem_last'.op = "initialize_system"
          => (/\ ~mem_last'.raised /\ phase' = "running"
              /\ ~mem_last'.returned => longterm_memory' = EmptyMap)]_vars

\* C18: at every point the snapshot file is either absent or a whole pickle,
\* also after a write that failed part-way.
C18_SnapshotIsAlwaysWhole ==
    memory_file # None => Unpickles(memory_file)

\* C19: when the save of an iteration of main_loop fails, the failure does not
\* leave the loop, and last_save_time stays, so the next iteration tries again.
C19_FailedSaveKeepsLoopAlive ==
    [][(mem_last'.op = "main_loop" /\ mem_last'.raised)
          => (loop_alive' /\ last_save_time' = last_save_time)]_vars

\* C13: dispatch is sequential: at most one dispatch is in flight at any time,
\* and a dispatch is started only when none is in flight, that is when the
\* one before it has returned its result or raised.
C13_OneDispatchAtATime ==
    [][/\ Len(in_flight') <= 1
       /\ Len(in_flight') > Len(in_flight) => in_flight = <<>>]_vars

\* C13 witness: a dispatch is in flight after an earlier iteration has ended.
C13_NextDispatchAfterReturn ==
    /\ Len(in_flight) = 1 /\ last.op = "main_loop" /\ action_log # <<>>

\* C21: when no available action is among the preferred actions of the current
\* stage, the action main_loop dispatches is the default continue_project.
C21_NoCandidateGivesDefault ==
    [][(/\ last'.op = "main_loop"
        /\ \A i \in 1..Len(get_available_actions(State)) :
              ~IsPreferred(get_available_actions(State)[i], current_stage))
          => last'.name = "continue_project"]_vars

C27_DecisionLeavesContextAlone ==
    [][last'.op = "make_decision" => last'.out.context = structured_context_keys]_vars

\* C29: the list a selection is made from holds only available actions that
\* are preferred for the current stage, and no action of type git (no
\* project is marked as a git project).
C29_CandidatesArePreferredAndRelevant ==
    [][last'.op = "make_decision"
          => \A i \in 1..Len(last'.out.candidates) :
                /\ IsPreferred(last'.out.candidates[i], current_stage)
                /\ last'.out.candidates[i] \notin GitActions]_vars

\* C23: is_stage_complete(stage, project_files) is true iff every file name
\* the stage requires is an element of project_files, as the same string:
\* true for testing with README.md, main.py, test_main.py, false without
\* test_main.py, and false when only tests/test_main.py is there.
C23_StageCompleteIffAllRequiredListed ==
    [][last'.op = "is_stage_complete"
          => (/\ last'.out.value
                   = (stage_requirements(last'.name)
                        \subseteq {last'.out.project_files[i] :
                                      i \in 1..Len(last'.out.project_files)})
              /\ (last'.name = "testing"
                    /\ last'.out.project_files = <<"README.md", "main.py", "test_main.py">>)
                   => last'.out.value
              /\ (last'.name = "testing"
                    /\ last'.out.project_files
                         \in {<<"README.md", "main.py">>,
                              <<"README.md", "main.py", "tests/test_main.py">>})
                   => ~last'.out.value)]_vars

\* C23 witness: implementation, which requires main.py and README.md, was
\* asked about a list that holds only README.md, and the answer was false.
C23_OneOfTwoRequiredIsNotComplete ==
    /\ last.op = "is_stage_complete" /\ last.name = "implementation"
    /\ last.out.project_files = <<"README.md">> /\ ~last.out.value

\* C24: update_progress with an event that reports an error (the error dict
\* that execute_action's except branch passes) increments the project's
\* errors_encountered along with total_actions.
C24_ErrorEventIsCounted ==
    [][(last'.op = "update_progress" /\ last'.arg.error)
          => \E name \in {IF last'.name = "" THEN "unknown_project" ELSE last'.name} :
                /\ progress_tracker'[name].total_actions
                     = progress_tracker[name].total_actions + 1
                /\ progress_tracker'[name].errors_encountered
                     = progress_tracker[name].errors_encountered + 1]_vars

\* C25: analyze_progress never divides by zero: for every record, also one
\* with no action and no time elapsed, every ratio has a denominator of at
\* least 1 and the guidance is built from the analysis.
C25_DenominatorsAtLeastOne ==
    [][(last'.op = "provide_guidance" /\ last'.name # None
          /\ progress_tracker[last'.name].present)
          => (/\ ~last'.out.guidance.fallback
              /\ last'.out.guidance.progress_analysis.action_frequency[2] >= 1
              /\ last'.out.guidance.progress_analysis.error_rate[2] >= 1
              /\ last'.out.guidance.progress_analysis.test_coverage[2] >= 1
              /\ last'.out.guidance.progress_analysis.commit_frequency[2] >= 1)]_vars

C28_MissingParametersRejected ==
    [][(last'.op = "execute_action" /\ last'.name = "write_tests")
          => (/\ fs' = fs
              /\ context' = context
              /\ current_project' = current_project
              /\ current_project_files' = current_project_files
              /\ current_stage' = current_stage)]_vars

\* C30: the log is in the order in which the dispatches completed: the
\* record of the dispatch that completes is written after the records of all
\* dispatches that completed before it, which stay where they are.
C30_LogInCompletionOrder ==
    [][last'.op = "actions_execute_action"
          => \/ action_log' = action_log
             \/ /\ Len(action_log') = Len(action_log) + 1
                /\ SubSeq(action_log', 1, Len(action_log)) = action_log
                /\ action_log'[Len(action_log')].action = last'.name]_vars

\* C30 witness: two dispatches have completed, and the record of the second,
\* which differs from that of the first, is the last one of the log.
C30_SecondRecordIsLast ==
    /\ last.op = "actions_execute_action" /\ Len(action_log) = 2
    /\ action_log[1] # action_log[2] /\ action_log[2].action = last.name

\* C31: snapshots are monotonically newer: last_save_time never decreases,
\* and a snapshot is written at a clock reading that is not earlier than the
\* one of the snapshot written before it.
C31_SnapshotsMonotonicallyNewer ==
    [][/\ last_save_time' >= last_save_time
       /\ mem_last'.writes > 0
            => (/\ mem_last'.written_at = now'
                /\ mem_last'.written_before = mem_last.written_at
                /\ mem_last'.written_at >= mem_last'.written_before)]_vars

\* C31 witness: a periodic save has just written a snapshot later than the
\* one before it, and moved last_save_time forward to the time of the write.
C31_SecondSnapshotIsLater ==
    /\ mem_last.op = "check_and_save_memory" /\ mem_last.writes = 1 /\ ~mem_last.raised
    /\ mem_last.written_before # Never
    /\ mem_last.written_at > mem_last.written_before
    /\ last_save_time = mem_last.written_at

\* C32: in an existing project create_file returns True and a read_file of
\* the same file that follows it returns exactly the content that was given;
\* in a project that does not exist create_file returns False and creates
\* nothing.
C32_CreateThenReadReturnsContent ==
    [][/\ last'.op = "create_file"
            => IF project_exists(disk, last'.out.project_name)
               THEN last'.out.value = TRUE
               ELSE last'.out.value = FALSE /\ disk' = disk
       /\ (/\ last.op = "create_file" /\ last'.op = "read_file"
           /\ project_exists(disk, last.out.project_name)
           /\ last'.out.project_name = last.out.project_name /\ last'.name = last.name)
            => last'.out.value = last.out.arg]_vars

\* C33: modify_file on a file that exists and is not empty returns True, and
\* the file then reads as its old content with the occurrences of every key
\* replaced by the key's value; on a missing or empty file it returns False
\* and changes nothing.
C33_ModifyReplacesEveryOccurrence ==
    [][last'.op = "modify_file"
          => IF read_file(disk, last'.out.project_name, last'.name).value # <<>>
             THEN /\ last'.out.value = TRUE
                  /\ read_file(disk', last'.out.project_name, last'.name).value
                        = modified(read_file(disk, last'.out.project_name, last'.name).value,
                                   last'.out.arg)
             ELSE last'.out.value = FALSE /\ disk' = disk]_vars

\* the tokens of m occur in s, in the order of m
RECURSIVE InOrder(_, _)
InOrder(m, s) ==
    IF m = <<>> THEN TRUE
    ELSE IF s = <<>> THEN FALSE
    ELSE IF Head(m) = Head(s) THEN InOrder(Tail(m), Tail(s))
    ELSE InOrder(m, Tail(s))

RECURSIVE Spoken(_)
Spoken(history) ==
    IF history = <<>> THEN <<>>
    ELSE <<Head(history).role, Head(history).content>> \o Spoken(Tail(history))

C40_RunStopsOnlyWhenAllCalled ==
    [][last'.op = "run"
          => (/\ \A i \in 1..Len(agent'.contacts) : agent'.calls[i] <= 1
              /\ agent'.pc = "done" => uncalled_contacts(agent') = <<>>)]_vars

\* C35: between two iterations of the loop the stored project state is
\* "in_progress" only while there is a current project; a continue_project
\* that finds no project to continue leaves it at "idle".
C35_InProgressOnlyWithProject ==
    /\ (driver = "loop" /\ project_state = "in_progress") => current_project # None
    /\ (/\ driver = "loop" /\ last.op = "main_loop" /\ last.name = "continue_project"
        /\ current_project = None)
         => project_state = "idle"

\* C37: between two iterations of the loop, when there is no current project
\* the list of tracked project files is empty; and every operation that
\* clears the current project (exit, reset, review) leaves that list empty.
C37_NoProjectNoTrackedFiles ==
    [][/\ (driver' = "loop" /\ current_project' = None) => current_project_files' = <<>>
       /\ (current_project # None /\ current_project' = None)
            => current_project_files' = <<>>]_vars

\* C38: the context of the dispatcher agrees with the orchestrator: with a
\* current project it names that project with state "in_progress", and
\* without one it has no current project.
C38_DispatcherContextAgrees ==
    /\ current_project # None
         => (context.current_project = current_project /\ context.project_state = "in_progress")
    /\ current_project = None => context.current_project = None

\* C36: for one decided project action at most one handler is invoked: the
\* action is not run a second time, and no second generic action is run.
C36_OneHandlerCallPerProjectAction ==
    [][last'.op = "execute_project_action"
          => (/\ Len(last'.calls) <= 1
              /\ Len(action_log') <= Len(action_log) + 1
              /\ Len(context'.recent_actions) <= Len(context.recent_actions) + 1)]_vars

\* C36 witness: a project action was executed and its handler was invoked.
C36_HandlerInvokedOnce ==
    /\ last.op = "execute_project_action" /\ Len(last.calls) = 1
    /\ current_project # None /\ Len(action_log) = 1

\* C39: inside a project an action is dispatched only if it is valid for the
\* tracked files: with no tracked file only create_file, generate_code and
\* exit_project, and run_code, write_tests and analyze_code only with a tracked
\* file that ends in .py; an action that is not valid calls no handler and
\* leaves project, files and stage as they are.
C39_OnlyValidActionsDispatched ==
    [][(last'.op = "execute_project_action" /\ current_project # None)
          => (/\ (last'.calls # <<>> /\ current_project_files = <<>>)
                    => last'.name \in {"create_file", "generate_code", "exit_project"}
              /\ (last'.calls # <<>> /\ last'.name \in {"run_code", "write_tests", "analyze_code"})
                    => HasPy(current_project_files)
              /\ ~is_action_valid(State, last'.name)
                    => (/\ last'.calls = <<>>
                        /\ UNCHANGED <<current_project, current_project_files, current_stage,
                                       fs, action_log, context>>))]_vars

\* C39 witness: with a project whose tracked files hold a .py file,
\* write_tests was dispatched.
C39_WriteTestsDispatchedWithPy ==
    /\ last.op = "execute_project_action" /\ last.name = "write_tests"
    /\ last.calls = <<"write_tests">>
    /\ current_project # None /\ HasPy(current_project_files)
====
